---------------------------- MODULE Spec2Model ----------------------------
(***************************************************************************)
(* The adaptive-control hub of stellar-pi-coin-sdk:                        *)
(*   GodHeadNexus    (src/src/godhead_nexus/nexus_core.js)                 *)
(*   IoTIntegration  (src/unnamed/part_003, iot_integration.js)            *)
(*   AIAppGeneratorStudio.quantumEncrypt/quantumDecrypt                    *)
(*                   (src/unnamed/part_000, studio.js)                     *)
(*                                                                         *)
(* Amounts.  The source counts the peg in micro-units (3141590000000).     *)
(* TLC integers are 32 bits wide, so every amount of the model is counted  *)
(* in units of 10^4 micro-units: basePeg 3141590000000 is 314159000, the   *)
(* factor 1000000 of adjustPiPegging is 100, and the bound                 *)
(* [0, 4000000000000] is [0, 400000000].  Adjustments are whole numbers.   *)
(***************************************************************************)
EXTENDS Integers, Sequences, FiniteSets, TLC

VARIABLES
    model,       \* GodHeadNexus.model: "null" or "loaded"
    loads,       \* one entry per tf.loadLayersModel call: "pending", "ok", "failed"
    calls,       \* one record per predictAdjustment / processSensorData invocation
    events,      \* per event name, every emit() on the nexus in emission order
    sensorData,  \* IoTIntegration.sensorData: topic -> cache entry
    lastPrediction, \* GodHeadNexus.lastPrediction: never declared, read by getNexusStatus
    iotDataCache,\* GodHeadNexus.iotDataCache: a reference into the heap
    heap,        \* the objects the hub hands out by reference: id -> contents
    pulls,       \* one record per fetchIoTSensors invocation
    snapshots,   \* the objects getNexusStatus returned, held by its callers
    subscribers, \* the listeners other components registered for 'predictionMade'
    crashed,     \* TRUE once the Node process was terminated
    teardown,    \* IoTIntegration.shutdown: whether it ran, and what it left behind
    plaintext,   \* SecureStore check: the string handed to quantumEncrypt
    key,         \* SecureStore check: this.quantumKey of the encrypting object
    blob,        \* SecureStore check: the persisted string
    tamper,      \* SecureStore check: what happened to the string between the calls
    dkey,        \* SecureStore check: this.quantumKey of the decrypting object
    result,      \* SecureStore check: outcome of quantumDecrypt
    phase        \* SecureStore check: "off", "start", "encrypted", "stored", "decrypted"

readingVars == <<model, loads, calls, events, sensorData, lastPrediction>>
apiVars == <<iotDataCache, heap, pulls, snapshots>>
hubVars == <<readingVars, apiVars, subscribers, crashed, teardown>>
cryptoVars == <<plaintext, key, blob, tamper, dkey, result, phase>>
vars == <<model, loads, calls, events, sensorData, lastPrediction, iotDataCache, heap, pulls,
          snapshots,
          subscribers, crashed, teardown,
          plaintext, key, blob, tamper, dkey, result, phase>>

-----------------------------------------------------------------------------
(* Bounds of the model *)

\* invocations of predictAdjustment / processSensorData per behaviour
MaxCalls == 2

\* characters of a plaintext handed to quantumEncrypt
MaxPlainLen == 2

\* invocations of fetchIoTSensors per behaviour
MaxPulls == 2

\* invocations of getNexusStatus per behaviour
MaxSnapshots == 2

-----------------------------------------------------------------------------
(* Small helpers *)

Abs(n) == IF n < 0 THEN 0 - n ELSE n

RECURSIVE Flatten(_)
Flatten(ss) == IF ss = <<>> THEN <<>> ELSE Head(ss) \o Flatten(Tail(ss))

SeqsUpTo(S, n) == UNION {[1..k -> S] : k \in 0..n}



-----------------------------------------------------------------------------
(* Inputs of the hub *)

\* adjustPiPegging: const basePeg = 3141590000000, in units of 10^4 micro-units
basePeg == 314159000

\* adjustPiPegging: adjustment * 1000000, in units of 10^4 micro-units
PegScale == 100

\* processSensorData: if (data.energyPrice > 50)
TrainingThreshold == 50

\* processSensorData: data.price || 314159
DefaultPrice == 314159

\* processSensorData: data.volume || 1000
DefaultVolume == 1000

\* the configured bound [min, max] of the peg: [0, 4000000000000] micro-units
PegMin == 0

PegMax == 400000000

\* what Model.infer can answer: no change, the scenario's +50000 (scaled
\* +50000000000 micro-units), and a value large enough to leave the bound
Adjustments == {0, 50000, 1000000}

\* model.predict(input).dataSync()[0] either yields a number or throws
InferOutcomes ==
    {[ok |-> TRUE, value |-> a] : a \in Adjustments} \cup {[ok |-> FALSE, value |-> 0]}

\* the topics readings arrive on: one MQTT topic under pi/sensors/#
Topics == {"pi/sensors/energy"}

\* parsed sensor messages; a field that is not in the DOMAIN is undefined in JS.
\* The energy price is above, below and exactly at the threshold, or absent
SensorInputs ==
    {[energyPrice |-> 60], [energyPrice |-> 10], [energyPrice |-> 50],
     [commodityIndex |-> 70]}

\* marketData of the direct callers (queryContractOracle, the tests)
DirectInputs == {<<314159, 1000>>}

\* fingerprints the storage backend can return from ipfs.add
Cids == {"QmA", "QmB"}

\* Date.now() as a logical clock: the number of invocations handled so far
DateNow == Len(calls)

\* JS `data.f || d`: d when the field is undefined or falsy (0)
OrDefault(data, f, d) == IF f \in DOMAIN data /\ data[f] # 0 THEN data[f] ELSE d

\* the comparison `data.f >= n` in place of `data.f > n`
FieldAtLeast(data, f, n) == f \in DOMAIN data /\ data[f] >= n

\* JS `data.f > n`: false when the field is undefined
FieldExceeds(data, f, n) == f \in DOMAIN data /\ data[f] > n

\* processSensorData: the vector handed to predictAdjustment
MarketVector(data) ==
    << OrDefault(data, "price", DefaultPrice),
       OrDefault(data, "volume", DefaultVolume),
       OrDefault(data, "timestamp", DateNow),
       OrDefault(data, "energyPrice", 0),
       OrDefault(data, "commodityIndex", 0) >>

-----------------------------------------------------------------------------
(* GodHeadNexus *)

\* the event names the hub emits
EventNames ==
    {"modelLoaded", "predictionMade", "iotDataUpdated", "peggingAdjusted",
     "trainingTriggered"}

\* the listeners registered for an event name after the hub's own (which
\* setupEventListeners registered first and which only log): each either
\* returns ("ok") or raises an error ("throws")
Listeners(name) == IF name = "predictionMade" THEN subscribers ELSE <<>>

\* the first listener that raises an error, 0 when none does
FirstThrower(ls) ==
    IF \E i \in DOMAIN ls : ls[i] = "throws"
    THEN CHOOSE i \in DOMAIN ls :
            ls[i] = "throws" /\ \A j \in 1..(i - 1) : ls[j] # "throws"
    ELSE 0

\* EventEmitter.emit calls the listeners one after the other in registration
\* order, in the caller's stack and without a try block: an error raised by
\* one listener ends the delivery and leaves emit as an exception
Delivered(ls) == IF FirstThrower(ls) = 0 THEN Len(ls) ELSE FirstThrower(ls)

EmitThrows(name) == FirstThrower(Listeners(name)) # 0

\* EventEmitter.emit(name, payload): subscribers of one name receive its events
\* in emission order.  `by` is the invocation that emitted (0: loadModel),
\* `registered` the number of listeners other components had registered and
\* `delivered` the number of them that were called; these three are
\* bookkeeping of the model and not part of what subscribers receive
Emit(evs, name, by, payload) ==
    [evs EXCEPT ![name] =
        Append(@, [by |-> by, payload |-> payload,
                   registered |-> Len(Listeners(name)),
                   delivered |-> Delivered(Listeners(name))])]

\* loadModel up to its await: tf.loadLayersModel(modelUrl) has been called
StartLoad(ls) == Append(ls, [loader |-> "pending", promise |-> "pending"])

\* loadModel, try branch: this.model is set, 'modelLoaded' is emitted, the
\* returned promise resolves
LoadResolved(l) ==
    /\ l \in DOMAIN loads
    /\ loads[l].loader = "pending"
    /\ loads' = [loads EXCEPT ![l] = [loader |-> "ok", promise |-> "resolved"]]
    /\ model' = "loaded"
    /\ events' = Emit(events, "modelLoaded", 0, [x \in {} |-> 0])
    /\ UNCHANGED <<calls, sensorData, lastPrediction>>

\* what the promise returned by loadModel does when the loader rejected: the
\* catch block logs and falls through, so the promise resolves
LoadFailurePromise == "resolved"

\* a catch branch that clears this.model
LoadRejectedResets(l) ==
    /\ l \in DOMAIN loads
    /\ loads[l].loader = "pending"
    /\ loads' = [loads EXCEPT ![l] = [loader |-> "failed", promise |-> LoadFailurePromise]]
    /\ model' = "null"
    /\ UNCHANGED <<calls, events, sensorData, lastPrediction>>

\* loadModel, catch branch: console.error only
LoadRejected(l) ==
    /\ l \in DOMAIN loads
    /\ loads[l].loader = "pending"
    /\ loads' = [loads EXCEPT ![l] = [loader |-> "failed", promise |-> LoadFailurePromise]]
    /\ UNCHANGED <<model, calls, events, sensorData, lastPrediction>>

\* predictAdjustment with the emit moved in front of the inference
RunPredictionEmitFirst(m, vec, out, by, evs) ==
    LET emitted == Emit(evs, "predictionMade", by,
                        [adjustment |-> out.value, marketData |-> vec])
    IN  IF m = "null"
        THEN [pst |-> "threw", error |-> "TypeError", adjustment |-> 0, events |-> emitted,
              lastPrediction |-> lastPrediction]
        ELSE IF ~out.ok
        THEN [pst |-> "threw", error |-> "InferenceError", adjustment |-> 0,
              events |-> emitted,
              lastPrediction |-> lastPrediction]
        ELSE [pst |-> "returned", error |-> "none", adjustment |-> out.value,
              events |-> emitted,
              lastPrediction |-> lastPrediction]

\* a predictAdjustment that stores the adjustment in this.lastPrediction
\* before it emits and returns
RunPredictionRecording(m, vec, out, by, evs) ==
    IF m = "null"
    THEN [pst |-> "threw", error |-> "TypeError", adjustment |-> 0, events |-> evs,
          lastPrediction |-> lastPrediction]
    ELSE IF ~out.ok
    THEN [pst |-> "threw", error |-> "InferenceError", adjustment |-> 0, events |-> evs,
          lastPrediction |-> lastPrediction]
    ELSE IF EmitThrows("predictionMade")
    THEN [pst |-> "threw", error |-> "ListenerError", adjustment |-> 0,
          events |-> Emit(evs, "predictionMade", by,
                          [adjustment |-> out.value, marketData |-> vec]),
          lastPrediction |-> [defined |-> TRUE, value |-> out.value]]
    ELSE [pst |-> "returned", error |-> "none", adjustment |-> out.value,
          events |-> Emit(evs, "predictionMade", by,
                          [adjustment |-> out.value, marketData |-> vec]),
          lastPrediction |-> [defined |-> TRUE, value |-> out.value]]

\* predictAdjustment from line 35 on, run with this.model = m: tensor2d,
\* this.model.predict (a TypeError when this.model is null), dataSync, emit (the
\* error of a listener leaves predictAdjustment through it), return
RunPrediction(m, vec, out, by, evs) ==
    IF m = "null"
    THEN [pst |-> "threw", error |-> "TypeError", adjustment |-> 0, events |-> evs,
          lastPrediction |-> lastPrediction]
    ELSE IF ~out.ok
    THEN [pst |-> "threw", error |-> "InferenceError", adjustment |-> 0, events |-> evs,
          lastPrediction |-> lastPrediction]
    ELSE IF EmitThrows("predictionMade")
    THEN [pst |-> "threw", error |-> "ListenerError", adjustment |-> 0,
          events |-> Emit(evs, "predictionMade", by,
                          [adjustment |-> out.value, marketData |-> vec]),
          lastPrediction |-> lastPrediction]
    ELSE [pst |-> "returned", error |-> "none", adjustment |-> out.value,
          events |-> Emit(evs, "predictionMade", by,
                          [adjustment |-> out.value, marketData |-> vec]),
          lastPrediction |-> lastPrediction]

\* predictAdjustment up to its first suspension, for the invocation numbered c.
\* if (!this.model) await this.loadModel(): a new load is started and awaited;
\* otherwise the body runs to its return in the same turn.
PredictEntry(c, kind, topic, data, vec, ost, out) ==
    IF model = "null"
    THEN /\ loads' = StartLoad(loads)
         /\ calls' = Append(calls,
                [kind |-> kind, topic |-> topic, data |-> data, marketData |-> vec,
                 load |-> Len(loads) + 1, pst |-> "awaitLoad", adjustment |-> 0,
                 error |-> "none", ost |-> ost, stored |-> "none", cid |-> "none"])
         /\ UNCHANGED <<events, lastPrediction>>
    ELSE LET r == RunPrediction(model, vec, out, c, events) IN
         /\ calls' = Append(calls,
                [kind |-> kind, topic |-> topic, data |-> data, marketData |-> vec,
                 load |-> 0, pst |-> r.pst, adjustment |-> r.adjustment,
                 error |-> r.error, ost |-> ost, stored |-> "none", cid |-> "none"])
         /\ events' = r.events
         /\ lastPrediction' = r.lastPrediction
         /\ UNCHANGED loads

\* a direct call of predictAdjustment(marketData)
predictAdjustment(vec) ==
    /\ Len(calls) < MaxCalls
    /\ \E out \in InferOutcomes :
          PredictEntry(Len(calls) + 1, "predict", "none", [x \in {} |-> 0], vec, "none", out)
    /\ UNCHANGED <<model, sensorData>>

\* predictAdjustment resumes after `await this.loadModel()`
PredictResume(c) ==
    /\ c \in DOMAIN calls
    /\ calls[c].pst = "awaitLoad"
    /\ loads[calls[c].load].promise # "pending"
    /\ \E out \in InferOutcomes :
          LET r == RunPrediction(model, calls[c].marketData, out, c, events) IN
          /\ calls' = [calls EXCEPT ![c].pst = r.pst,
                                    ![c].adjustment = r.adjustment,
                                    ![c].error = r.error]
          /\ events' = r.events
          /\ lastPrediction' = r.lastPrediction
    /\ UNCHANGED <<model, loads, sensorData>>

-----------------------------------------------------------------------------
(* IoTIntegration *)

\* adjustPiPegging: (adjustment * 1000000), the scaled adjustment
Scale(adjustment) == adjustment * PegScale

\* a peg computed from the last published peg in place of the fixed base
NewPegAccumulated(adjustment) ==
    LET log == events["peggingAdjusted"]
    IN  (IF log = <<>> THEN basePeg ELSE log[Len(log)].payload.newPeg)
           + Scale(adjustment)

\* adjustPiPegging: newPeg = basePeg + (adjustment * 1000000)
NewPeg(adjustment) == basePeg + Scale(adjustment)

\* adjustPiPegging publishing the reading it finds in the shared cache
\* this.sensorData in place of the iotData it was called with
adjustPiPeggingFromCache(adjustment, iotData, by, evs) ==
    Emit(evs, "peggingAdjusted", by,
         [newPeg |-> NewPeg(adjustment), iotData |-> sensorData[calls[by].topic].raw])

\* adjustPiPegging(adjustment, iotData): computes newPeg from the fixed base and
\* emits 'peggingAdjusted' with { newPeg, iotData }; it keeps no state
adjustPiPegging(adjustment, iotData, by, evs) ==
    Emit(evs, "peggingAdjusted", by, [newPeg |-> NewPeg(adjustment), iotData |-> iotData])

\* processSensorData(topic, data) up to `await this.nexus.predictAdjustment(...)`:
\* the reading is cached and predictAdjustment runs to its first suspension
processSensorData(topic, data) ==
    /\ Len(calls) < MaxCalls
    /\ sensorData' = [t \in DOMAIN sensorData \cup {topic} |->
                        IF t = topic THEN [raw |-> data, timestamp |-> DateNow]
                                     ELSE sensorData[t]]
    /\ \E out \in InferOutcomes :
          PredictEntry(Len(calls) + 1, "sensor", topic, data, MarketVector(data),
                       "awaitPredict", out)
    /\ UNCHANGED model

\* the message handlers call processSensorData without awaiting it and
\* without a catch, so its rejection is an unhandled promise rejection: Node
\* terminates the process (the default from version 15 on) or only warns
\* (earlier versions, or --unhandled-rejections=warn).  TRUE: terminated
UnhandledRejectionOutcomes == {TRUE, FALSE}

\* processSensorData resumes after the prediction settled: a rejection leaves
\* the handler (nothing catches it); otherwise adjustPiPegging runs, and a
\* reading with energyPrice > 50 enters triggerFederatedTraining, which runs
\* up to `await this.ipfs.add(encryptedData)`
ProcessResume(c) ==
    /\ c \in DOMAIN calls
    /\ calls[c].ost = "awaitPredict"
    /\ calls[c].pst \in {"returned", "threw"}
    /\ IF calls[c].pst = "threw"
       THEN /\ calls' = [calls EXCEPT ![c].ost = "rejected"]
            /\ crashed' \in UnhandledRejectionOutcomes
            /\ UNCHANGED events
       ELSE /\ crashed' = crashed
            /\ events' = adjustPiPegging(calls[c].adjustment, calls[c].data, c, events)
            /\ calls' = [calls EXCEPT ![c].ost =
                            IF FieldExceeds(calls[c].data, "energyPrice", TrainingThreshold)
                            THEN "awaitStore" ELSE "done"]
    /\ UNCHANGED <<model, loads, sensorData, lastPrediction>>

\* triggerFederatedTraining with the emit moved in front of the store call:
\* the fingerprint is not known yet
TrainingPayloadEarly(cid, contributionData) == [cid |-> "none", data |-> contributionData]

\* triggerFederatedTraining: the payload { cid, data: contributionData } of
\* 'trainingTriggered'
TrainingPayload(cid, contributionData) == [cid |-> cid, data |-> contributionData]

\* triggerFederatedTraining after ipfs.add resolved with { cid }: emits
\* 'trainingTriggered' and returns { cid }; processSensorData logs and ends.
\* `stored` is what the store call answered, `cid` what the trigger returned
StoreResolved(c, cid) ==
    /\ c \in DOMAIN calls
    /\ calls[c].ost = "awaitStore"
    /\ events' = Emit(events, "trainingTriggered", c,
                      TrainingPayload(cid, [sensorData |-> calls[c].data]))
    /\ calls' = [calls EXCEPT ![c].ost = "done", ![c].stored = cid, ![c].cid = cid]
    /\ UNCHANGED <<model, loads, sensorData, lastPrediction>>

\* ipfs.add rejected: triggerFederatedTraining rejects at its await, and so
\* does processSensorData at its own (neither has a try block)
StoreRejected(c) ==
    /\ c \in DOMAIN calls
    /\ calls[c].ost = "awaitStore"
    /\ calls' = [calls EXCEPT ![c].ost = "rejected", ![c].stored = "failed"]
    /\ crashed' \in UnhandledRejectionOutcomes
    /\ UNCHANGED <<model, loads, events, sensorData, lastPrediction>>

-----------------------------------------------------------------------------
(* SecureStore: quantumEncrypt / quantumDecrypt of GodHeadNexus, of            *)
(* IoTIntegration and of AIAppGeneratorStudio (the same code three times).     *)
(* A string is a sequence of one-character strings, a plaintext a sequence of  *)
(* code points, a Buffer a sequence of bytes.                                  *)

\* the code points plaintexts are made of: "A", "|" and U+00E9 (two UTF-8 bytes)
PlainAlphabet == {65, 124, 233}

Plaintexts == SeqsUpTo(PlainAlphabet, MaxPlainLen)

\* this.quantumKey: two different passwords
Keys == {1, 2}

\* the authentication tag of aes-256-gcm as getAuthTag() returns it: 16 bytes
TagLength == 16

\* the tag lengths decipher.setAuthTag accepts for GCM when the decipher was
\* created without authTagLength
ValidTagLengths == {4, 8, 12, 13, 14, 15, 16}

HexDigits == <<"0", "1", "2", "3", "4", "5", "6", "7", "8", "9",
               "a", "b", "c", "d", "e", "f">>

IsHexDigit(ch) == \E i \in DOMAIN HexDigits : HexDigits[i] = ch

HexValue(ch) == (CHOOSE i \in DOMAIN HexDigits : HexDigits[i] = ch) - 1

\* buf.toString('hex') / cipher.update(.., 'hex'): two digits per byte
HexEncode(bytes) ==
    Flatten([i \in DOMAIN bytes |->
                <<HexDigits[(bytes[i] \div 16) + 1], HexDigits[(bytes[i] % 16) + 1]>>])

\* Buffer.from(str, 'hex'): decodes pairs of hex digits and stops at the first
\* character that is no hex digit, or at a dangling last digit
RECURSIVE HexDecode(_)
HexDecode(chars) ==
    IF Len(chars) < 2 \/ ~IsHexDigit(chars[1]) \/ ~IsHexDigit(chars[2])
    THEN <<>>
    ELSE <<(HexValue(chars[1]) * 16) + HexValue(chars[2])>>
            \o HexDecode(SubSeq(chars, 3, Len(chars)))

\* the 'utf8' input encoding of cipher.update
Utf8Encode(cps) ==
    Flatten([i \in DOMAIN cps |->
                IF cps[i] < 128 THEN <<cps[i]>>
                ELSE <<192 + (cps[i] \div 64), 128 + (cps[i] % 64)>>])

\* the 'utf8' output encoding of decipher.update / final: an invalid byte
\* decodes to U+FFFD
RECURSIVE Utf8Decode(_)
Utf8Decode(bytes) ==
    IF bytes = <<>> THEN <<>>
    ELSE IF bytes[1] < 128 THEN <<bytes[1]>> \o Utf8Decode(Tail(bytes))
    ELSE IF /\ bytes[1] >= 192 /\ bytes[1] < 224 /\ Len(bytes) >= 2
            /\ bytes[2] >= 128 /\ bytes[2] < 192
         THEN <<((bytes[1] - 192) * 64) + (bytes[2] - 128)>>
                 \o Utf8Decode(SubSeq(bytes, 3, Len(bytes)))
         ELSE <<65533>> \o Utf8Decode(Tail(bytes))

\* bitwise exclusive or of two bytes
RECURSIVE Xor(_, _)
Xor(a, b) ==
    IF a = 0 /\ b = 0 THEN 0
    ELSE ((a + b) % 2) + (2 * Xor(a \div 2, b \div 2))

\* createCipher('aes-256-gcm', password) derives key and IV from the password
\* alone, so the GCM key stream is a fixed function of the password and the
\* position; this stands for that function
KeyStream(k, i) == ((k * 37) + (i * 101) + 11) % 256

\* cipher.update + cipher.final in counter mode: the data xor the key stream
\* (deciphering is the same operation)
CipherUpdate(bytes, k) == [i \in DOMAIN bytes |-> Xor(bytes[i], KeyStream(k, i))]

RECURSIVE WeightedSum(_, _, _)
WeightedSum(bytes, j, i) ==
    IF j > Len(bytes) THEN 0
    ELSE ((bytes[j] + 1) * (i + j)) + WeightedSum(bytes, j + 1, i)

\* cipher.getAuthTag(): a keyed checksum of the ciphertext; this stands for
\* GHASH: it changes with the password and with every single byte of ciphertext
AuthTag(k, ct) ==
    [i \in 1..TagLength |-> ((131 * i * k) + WeightedSum(ct, 1, i)) % 256]

\* quantumEncrypt without the separator between the two hex strings
quantumEncryptNoSeparator(data, k) ==
    LET ct == CipherUpdate(Utf8Encode(data), k)
    IN  HexEncode(ct) \o HexEncode(AuthTag(k, ct))

\* quantumEncrypt(data): hex(ciphertext) + '|' + hex(tag)
quantumEncrypt(data, k) ==
    LET ct == CipherUpdate(Utf8Encode(data), k)
    IN  HexEncode(ct) \o <<"|">> \o HexEncode(AuthTag(k, ct))

\* str.split('|')
RECURSIVE Split(_)
Split(chars) ==
    IF \A i \in DOMAIN chars : chars[i] # "|" THEN <<chars>>
    ELSE LET p == CHOOSE i \in DOMAIN chars :
                      chars[i] = "|" /\ \A j \in 1..(i - 1) : chars[j] # "|"
         IN  <<SubSeq(chars, 1, p - 1)>> \o Split(SubSeq(chars, p + 1, Len(chars)))

\* quantumDecrypt with the output encoding 'binary' in place of 'utf8': every
\* deciphered byte becomes one character
quantumDecryptBinary(encryptedData, k) ==
    LET segs == Split(encryptedData)
        data == segs[1]
    IN  IF Len(segs) < 2
        THEN [status |-> "threw", error |-> "ERR_INVALID_ARG_TYPE"]
        ELSE LET tag == HexDecode(segs[2])
                 ct == HexDecode(data)
             IN  IF Len(tag) \notin ValidTagLengths
                 THEN [status |-> "threw", error |-> "ERR_CRYPTO_INVALID_AUTH_TAG"]
                 ELSE IF tag # SubSeq(AuthTag(k, ct), 1, Len(tag))
                 THEN [status |-> "threw", error |-> "AuthenticationFailed"]
                 ELSE [status |-> "returned", value |-> CipherUpdate(ct, k)]

\* quantumDecrypt(encryptedData):
\*   const [data, tag] = encryptedData.split('|')   segments after the second are dropped
\*   Buffer.from(tag, 'hex')                        TypeError when tag is undefined
\*   decipher.setAuthTag(..)                        throws on an invalid tag length
\*   decipher.update(data, 'hex', 'utf8')
\*   decipher.final('utf8')                         throws when the tag, in the length
\*                                                  given, does not authenticate
quantumDecrypt(encryptedData, k) ==
    LET segs == Split(encryptedData)
        data == segs[1]
    IN  IF Len(segs) < 2
        THEN [status |-> "threw", error |-> "ERR_INVALID_ARG_TYPE"]
        ELSE LET tag == HexDecode(segs[2])
                 ct == HexDecode(data)
             IN  IF Len(tag) \notin ValidTagLengths
                 THEN [status |-> "threw", error |-> "ERR_CRYPTO_INVALID_AUTH_TAG"]
                 ELSE IF tag # SubSeq(AuthTag(k, ct), 1, Len(tag))
                 THEN [status |-> "threw", error |-> "AuthenticationFailed"]
                 ELSE [status |-> "returned", value |-> Utf8Decode(CipherUpdate(ct, k))]

\* what can happen to a persisted string before it is read back
TamperKinds ==
    {"none", "flipTagDigit", "truncateTag", "shortTag", "appendNonHex",
     "appendSegment", "dropPipe", "dropTag", "flipDataDigit"}

\* the tamperings that alter the tag segment and nothing else
TagTamperKinds == {"flipTagDigit", "truncateTag", "shortTag", "appendNonHex"}

OtherDigit(ch) == IF ch = "0" THEN "1" ELSE "0"

Tamper(b, kind) ==
    LET segs == Split(b)
        data == segs[1]
        tag == segs[2]
    IN  CASE kind = "none" -> b
          [] kind = "flipTagDigit" ->
                data \o <<"|">> \o <<OtherDigit(tag[1])>> \o Tail(tag)
          [] kind = "truncateTag" -> data \o <<"|">> \o SubSeq(tag, 1, 8)
          [] kind = "shortTag" -> data \o <<"|">> \o SubSeq(tag, 1, 2)
          [] kind = "appendNonHex" -> b \o <<"z">>
          [] kind = "appendSegment" -> b \o <<"|", "0", "0">>
          [] kind = "dropPipe" -> data \o tag
          [] kind = "dropTag" -> data \o <<"|">>
          [] kind = "flipDataDigit" ->
                IF data = <<>> THEN b
                ELSE <<OtherDigit(data[1])>> \o Tail(data) \o <<"|">> \o tag

-----------------------------------------------------------------------------
(* GodHeadNexus.fetchIoTSensors.  this.iotDataCache is an object that the hub  *)
(* hands out by reference (as the event payload and as the return value), so   *)
(* objects live in a heap: a sequence of contents indexed by object id.        *)

\* the object literal {}
EmptyObject == [x \in {} |-> 0]

\* the value of a property that was never assigned
Undefined == [defined |-> FALSE]

\* null, as the value of a field
Null == [defined |-> FALSE, null |-> TRUE]

\* the reference that stands for a fresh {} nobody else holds
FreshEmpty == 0

\* fetchIoTSensors(sensorIds = ['energy_price', 'commodity_index'])
SensorIdLists == {<<"energy_price", "commodity_index">>}

\* what one axios.get can end as: a response whose data.value is a number (the
\* tests mock 50 and 100), a response whose data has no value field
\* (malformed), or a rejection (the feed is unreachable)
PullResponses ==
    {[status |-> "ok", value |-> 50], [status |-> "ok", value |-> 100],
     [status |-> "malformed"], [status |-> "unreachable"]}

\* res.data.value: undefined when the response has no value field
ResponseValue(res) ==
    IF res.status = "ok" THEN [defined |-> TRUE, value |-> res.value]
    ELSE [defined |-> FALSE]

\* a reduce that reads the first response for every id
ReduceResponsesFirst(ids, responses) ==
    [id \in {ids[i] : i \in DOMAIN ids} |-> ResponseValue(responses[1])]

\* responses.reduce((acc, res, idx) => { acc[sensorIds[idx]] = res.data.value }, {})
ReduceResponses(ids, responses) ==
    [id \in {ids[i] : i \in DOMAIN ids} |->
        ResponseValue(responses[CHOOSE i \in DOMAIN ids : ids[i] = id])]

\* fetchIoTSensors up to `await Promise.all(...)`: the requests are sent
fetchIoTSensors(ids) ==
    /\ Len(pulls) < MaxPulls
    /\ pulls' = Append(pulls, [ids |-> ids, st |-> "pending",
                               responses |-> <<>>, result |-> FreshEmpty])
    /\ UNCHANGED <<iotDataCache, heap, events>>

\* a settlement without the catch block: the requests that answered are
\* reduced, cached and published whatever the others did
FetchSettledPartial(p, responses) ==
    /\ p \in DOMAIN pulls
    /\ pulls[p].st = "pending"
    /\ DOMAIN responses = DOMAIN pulls[p].ids
    /\ LET built == ReduceResponses(pulls[p].ids, responses)
           ref == Len(heap) + 1
       IN  /\ heap' = Append(heap, built)
           /\ iotDataCache' = ref
           /\ events' = Emit(events, "iotDataUpdated", p,
                             [ref |-> ref, seen |-> built])
           /\ pulls' = [pulls EXCEPT ![p] = [@ EXCEPT !.st = "returned",
                                                     !.responses = responses,
                                                     !.result = ref]]

\* Promise.all settled for pull p.  It rejects as soon as one request rejects:
\* the catch block logs and returns a fresh {}, the cache is left as it was.
\* Otherwise a new object is built from all the responses, assigned to
\* this.iotDataCache, emitted as 'iotDataUpdated' and returned: event, cache
\* and return value are one object.  `seen` is the content the subscribers
\* were handed at emission time.
FetchSettled(p, responses) ==
    /\ p \in DOMAIN pulls
    /\ pulls[p].st = "pending"
    /\ DOMAIN responses = DOMAIN pulls[p].ids
    /\ IF \E i \in DOMAIN responses : responses[i].status = "unreachable"
       THEN /\ pulls' = [pulls EXCEPT ![p] = [@ EXCEPT !.st = "returned",
                                                      !.responses = responses,
                                                      !.result = FreshEmpty]]
            /\ UNCHANGED <<iotDataCache, heap, events>>
       ELSE LET built == ReduceResponses(pulls[p].ids, responses)
                ref == Len(heap) + 1
            IN  /\ heap' = Append(heap, built)
                /\ iotDataCache' = ref
                /\ events' = Emit(events, "iotDataUpdated", p,
                                  [ref |-> ref, seen |-> built])
                /\ pulls' = [pulls EXCEPT ![p] = [@ EXCEPT !.st = "returned",
                                                          !.responses = responses,
                                                          !.result = ref]]

-----------------------------------------------------------------------------
(* GodHeadNexus.getNexusStatus *)

\* x || null: null when x is undefined or 0, x otherwise
OrNull(x) == IF x.defined /\ x.value # 0 THEN x ELSE Null

\* getNexusStatus(): a new object literal whose iotCache field is the object
\* this.iotDataCache refers to (no copy) and whose lastPrediction field is
\* this.lastPrediction || null, a property nothing ever assigns
getNexusStatus ==
    /\ Len(snapshots) < MaxSnapshots
    /\ snapshots' = Append(snapshots,
                           [modelLoaded |-> (model # "null"),
                            iotCache |-> iotDataCache,
                            lastPrediction |-> OrNull(lastPrediction)])
    /\ UNCHANGED <<readingVars, iotDataCache, heap, pulls, subscribers, crashed, teardown>>

\* what a caller of getNexusStatus can assign into the object it was handed
WrittenIds == {"energy_price"}

WrittenValues == {[defined |-> TRUE, value |-> 999]}

\* the holder of snapshot n executes `status.iotCache[id] = v`: a property
\* assignment on the object the snapshot refers to
SnapshotWrite(n, id, v) ==
    /\ n \in DOMAIN snapshots
    /\ LET ref == snapshots[n].iotCache
           written == [k \in DOMAIN heap[ref] \cup {id} |->
                          IF k = id THEN v ELSE heap[ref][k]]
       IN  /\ written # heap[ref]
           /\ heap' = [heap EXCEPT ![ref] = written]
    /\ UNCHANGED <<readingVars, iotDataCache, pulls, snapshots, subscribers, crashed, teardown>>

-----------------------------------------------------------------------------
(* The hub as a state machine *)

\* the state after `new GodHeadNexus(...)` and `new IoTIntegration(nexus, ...)`:
\* the constructor has called loadModel() without awaiting it
HubInit ==
    /\ model = "null"
    /\ loads = StartLoad(<<>>)
    /\ calls = <<>>
    /\ events = [n \in EventNames |-> <<>>]
    /\ sensorData = [t \in {} |-> 0]
    /\ lastPrediction = Undefined
    /\ iotDataCache = 1
    /\ heap = <<EmptyObject>>
    /\ pulls = <<>>
    /\ snapshots = <<>>
    /\ subscribers = <<>>
    /\ crashed = FALSE
    /\ teardown = [reached |-> FALSE, inFlight |-> {}, waited |-> 0]

CryptoOff ==
    /\ plaintext = <<>>
    /\ key = 0
    /\ blob = <<>>
    /\ tamper = "none"
    /\ dkey = 0
    /\ result = [status |-> "none"]
    /\ phase = "off"

Init == HubInit /\ CryptoOff

\* every handler of the hub; none runs once the process was terminated
Next ==
    \/ /\ ~crashed
       /\ \E l \in DOMAIN loads : LoadResolved(l)
       /\ UNCHANGED <<cryptoVars, apiVars, subscribers, crashed, teardown>>
    \/ /\ ~crashed
       /\ \E l \in DOMAIN loads : LoadRejected(l)
       /\ UNCHANGED <<cryptoVars, apiVars, subscribers, crashed, teardown>>
    \/ /\ ~crashed
       /\ \E vec \in DirectInputs : predictAdjustment(vec)
       /\ UNCHANGED <<cryptoVars, apiVars, subscribers, crashed, teardown>>
    \/ /\ ~crashed
       /\ \E c \in DOMAIN calls : PredictResume(c)
       /\ UNCHANGED <<cryptoVars, apiVars, subscribers, crashed, teardown>>
    \/ /\ ~crashed
       /\ \E t \in Topics, d \in SensorInputs : processSensorData(t, d)
       /\ UNCHANGED <<cryptoVars, apiVars, subscribers, crashed, teardown>>
    \/ /\ ~crashed
       /\ \E c \in DOMAIN calls : ProcessResume(c)
       /\ UNCHANGED <<cryptoVars, apiVars, subscribers, teardown>>
    \/ /\ ~crashed
       /\ \E c \in DOMAIN calls, cid \in Cids : StoreResolved(c, cid)
       /\ UNCHANGED <<cryptoVars, apiVars, subscribers, crashed, teardown>>
    \/ /\ ~crashed
       /\ \E c \in DOMAIN calls : StoreRejected(c)
       /\ UNCHANGED <<cryptoVars, apiVars, subscribers, teardown>>

Spec == Init /\ [][Next]_vars

-----------------------------------------------------------------------------
(* SecureStore as a state machine: one plaintext is encrypted, persisted and   *)
(* read back                                                                   *)

CryptoInit ==
    /\ HubInit
    /\ plaintext \in Plaintexts
    /\ key \in Keys
    /\ blob = <<>>
    /\ tamper = "none"
    /\ dkey = 0
    /\ result = [status |-> "none"]
    /\ phase = "start"

Encrypt ==
    /\ phase = "start"
    /\ blob' = quantumEncrypt(plaintext, key)
    /\ phase' = "encrypted"
    /\ UNCHANGED <<plaintext, key, tamper, dkey, result>>

\* the string is persisted and comes back as it was (kind "none") or changed
Persist(kind) ==
    /\ phase = "encrypted"
    /\ kind = "none" \/ Tamper(blob, kind) # blob
    /\ blob' = Tamper(blob, kind)
    /\ tamper' = kind
    /\ phase' = "stored"
    /\ UNCHANGED <<plaintext, key, dkey, result>>

Decrypt(k) ==
    /\ phase = "stored"
    /\ dkey' = k
    /\ result' = quantumDecrypt(blob, k)
    /\ phase' = "decrypted"
    /\ UNCHANGED <<plaintext, key, blob, tamper>>

CryptoNext ==
    \/ Encrypt /\ UNCHANGED hubVars
    \/ \E kind \in TamperKinds : Persist(kind) /\ UNCHANGED hubVars
    \/ \E k \in Keys : Decrypt(k) /\ UNCHANGED hubVars

SpecCrypto == CryptoInit /\ [][CryptoNext]_vars

-----------------------------------------------------------------------------
(* IoTIntegration.shutdown *)

\* the readings whose handling is suspended at an await: their predict or
\* store call is in flight
InFlight ==
    {c \in DOMAIN calls :
        calls[c].kind = "sensor" /\ calls[c].ost \in {"awaitPredict", "awaitStore"}}

\* the time shutdown() lets pass between the signal and the teardown: it is
\* a synchronous function with no await and no timer
ShutdownWait == 0

\* shutdown(): this.mqttClient.end(); this.wsServer.close(); and the log line
\* 'IoT Integration shut down.', all in one turn.  The handlers suspended at
\* an await are neither awaited nor cancelled
shutdown ==
    /\ ~teardown.reached
    /\ teardown' = [reached |-> TRUE, inFlight |-> InFlight, waited |-> ShutdownWait]
    /\ UNCHANGED <<readingVars, apiVars, subscribers, crashed>>

\* the hub with its feeds and the shutdown signal.  The feeds are taken as
\* closed by mqttClient.end() and wsServer.close(): no reading arrives after
\* shutdown(); the suspended handlers go on
ShutdownNext ==
    \/ /\ ~crashed
       /\ \E l \in DOMAIN loads : LoadResolved(l)
       /\ UNCHANGED <<cryptoVars, apiVars, subscribers, crashed, teardown>>
    \/ /\ ~crashed
       /\ \E l \in DOMAIN loads : LoadRejected(l)
       /\ UNCHANGED <<cryptoVars, apiVars, subscribers, crashed, teardown>>
    \/ /\ ~crashed
       /\ \E c \in DOMAIN calls : PredictResume(c)
       /\ UNCHANGED <<cryptoVars, apiVars, subscribers, crashed, teardown>>
    \/ /\ ~crashed /\ ~teardown.reached
       /\ \E t \in Topics, d \in SensorInputs : processSensorData(t, d)
       /\ UNCHANGED <<cryptoVars, apiVars, subscribers, crashed, teardown>>
    \/ /\ ~crashed
       /\ \E c \in DOMAIN calls : ProcessResume(c)
       /\ UNCHANGED <<cryptoVars, apiVars, subscribers, teardown>>
    \/ /\ ~crashed
       /\ \E c \in DOMAIN calls, cid \in Cids : StoreResolved(c, cid)
       /\ UNCHANGED <<cryptoVars, apiVars, subscribers, crashed, teardown>>
    \/ /\ ~crashed
       /\ \E c \in DOMAIN calls : StoreRejected(c)
       /\ UNCHANGED <<cryptoVars, apiVars, subscribers, teardown>>
    \/ /\ ~crashed
       /\ shutdown
       /\ UNCHANGED cryptoVars

SpecShutdown == Init /\ [][ShutdownNext]_vars

-----------------------------------------------------------------------------
(* GodHeadNexus as an event bus: other components subscribe to                 *)
(* 'predictionMade' (the code generation studio does, for its prompts) and     *)
(* predictAdjustment publishes.                                                *)

\* listeners other components register per behaviour
MaxSubscribers == 2

\* nexus.on('predictionMade', listener): the listener is appended to the list
Subscribe(behaviour) ==
    /\ Len(subscribers) < MaxSubscribers
    /\ subscribers' = Append(subscribers, behaviour)
    /\ UNCHANGED <<readingVars, apiVars, crashed, teardown>>

BusNext ==
    \/ \E l \in DOMAIN loads :
          LoadResolved(l) /\ UNCHANGED <<cryptoVars, apiVars, subscribers, crashed, teardown>>
    \/ \E l \in DOMAIN loads :
          LoadRejected(l) /\ UNCHANGED <<cryptoVars, apiVars, subscribers, crashed, teardown>>
    \/ \E vec \in DirectInputs :
          predictAdjustment(vec) /\ UNCHANGED <<cryptoVars, apiVars, subscribers, crashed, teardown>>
    \/ \E c \in DOMAIN calls :
          PredictResume(c) /\ UNCHANGED <<cryptoVars, apiVars, subscribers, crashed, teardown>>
    \/ \E behaviour \in {"ok", "throws"} : Subscribe(behaviour) /\ UNCHANGED cryptoVars

SpecBus == Init /\ [][BusNext]_vars

-----------------------------------------------------------------------------
(* GodHeadNexus used through its API: the model load the constructor started,  *)
(* fetchIoTSensors and getNexusStatus.  These touch this.model and             *)
(* this.iotDataCache only, which the handling of readings never writes.        *)

NexusNext ==
    \/ \E l \in DOMAIN loads : LoadResolved(l) /\ UNCHANGED <<cryptoVars, apiVars, subscribers, crashed, teardown>>
    \/ \E l \in DOMAIN loads : LoadRejected(l) /\ UNCHANGED <<cryptoVars, apiVars, subscribers, crashed, teardown>>
    \/ \E ids \in SensorIdLists :
          fetchIoTSensors(ids)
             /\ UNCHANGED <<cryptoVars, model, loads, calls, sensorData, lastPrediction, snapshots,
                            subscribers, crashed, teardown>>
    \/ \E q \in DOMAIN pulls, ids \in SensorIdLists :
          \E responses \in [DOMAIN ids -> PullResponses] :
             FetchSettled(q, responses)
                /\ UNCHANGED <<cryptoVars, model, loads, calls, sensorData, lastPrediction, snapshots,
                               subscribers, crashed, teardown>>
    \/ getNexusStatus /\ UNCHANGED cryptoVars
    \/ \E n \in DOMAIN snapshots, id \in WrittenIds, v \in WrittenValues :
          SnapshotWrite(n, id, v) /\ UNCHANGED cryptoVars

SpecNexus == Init /\ [][NexusNext]_vars

-----------------------------------------------------------------------------
(* GodHeadNexus.model over any sequence of loadModel, predictAdjustment and    *)
(* getNexusStatus calls                                                        *)

\* loads started per behaviour by direct loadModel calls
MaxLoads == 3

\* loadModel() called on the hub, up to `await tf.loadLayersModel(modelUrl)`;
\* LoadResolved and LoadRejected are its two continuations
loadModel ==
    /\ Len(loads) < MaxLoads
    /\ loads' = StartLoad(loads)
    /\ UNCHANGED <<model, calls, events, sensorData, lastPrediction>>

ModelNext ==
    \/ loadModel /\ UNCHANGED <<cryptoVars, apiVars, subscribers, crashed, teardown>>
    \/ \E l \in DOMAIN loads :
          LoadResolved(l) /\ UNCHANGED <<cryptoVars, apiVars, subscribers, crashed, teardown>>
    \/ \E l \in DOMAIN loads :
          LoadRejected(l) /\ UNCHANGED <<cryptoVars, apiVars, subscribers, crashed, teardown>>
    \/ \E vec \in DirectInputs :
          predictAdjustment(vec) /\ UNCHANGED <<cryptoVars, apiVars, subscribers, crashed, teardown>>
    \/ \E c \in DOMAIN calls :
          PredictResume(c) /\ UNCHANGED <<cryptoVars, apiVars, subscribers, crashed, teardown>>
    \/ getNexusStatus /\ UNCHANGED cryptoVars

SpecModel == Init /\ [][ModelNext]_vars

-----------------------------------------------------------------------------
(* The peg as other components observe it *)

PegEvents == events["peggingAdjusted"]

\* the peg published before the i-th 'peggingAdjusted' event: the previous
\* event's newPeg, and the base peg before the first
PegBefore(i) == IF i = 1 THEN basePeg ELSE PegEvents[i - 1].payload.newPeg

\* the peg's current value: the last published one
CurrentPeg == PegBefore(Len(PegEvents) + 1)

\* the bound applied to a proposed value
Clamp(v) == IF v < PegMin THEN PegMin ELSE IF v > PegMax THEN PegMax ELSE v

\* the adjustment handed to adjustPiPegging for the i-th 'peggingAdjusted' event
PegAdjustment(i) == calls[PegEvents[i].by].adjustment

\* the 'peggingAdjusted' events emitted by invocation c
PegEventsBy(c) == {i \in DOMAIN PegEvents : PegEvents[i].by = c}

\* the 'predictionMade' events emitted by invocation c
PredictionEventsBy(c) ==
    {i \in DOMAIN events["predictionMade"] : events["predictionMade"][i].by = c}

-----------------------------------------------------------------------------
(* Claims C1 - C3: PeggingController *)

\* C1: after any sequence of adjustments the peg's current value, and the value
\* carried by every emitted peg event, lies within the bound [PegMin, PegMax].
C1_PegWithinBound ==
    /\ PegMin <= CurrentPeg /\ CurrentPeg <= PegMax
    /\ \A i \in DOMAIN PegEvents :
          PegMin <= PegEvents[i].payload.newPeg /\ PegEvents[i].payload.newPeg <= PegMax

\* C2: an adjustment whose scaled magnitude is below epsilon (stated for the
\* magnitude 0, which is below every epsilon) emits no peg event, so that the
\* peg's current value stays as it was.
C2_NegligibleAdjustmentSilent ==
    \A c \in DOMAIN calls :
        (calls[c].pst = "returned" /\ Abs(Scale(calls[c].adjustment)) = 0)
            => PegEventsBy(c) = {}

\* C3: when the clamped proposed value current + scale(adjustment) differs from
\* the current value, the peg becomes exactly that value and the one peg event
\* emitted for the adjustment carries the old and the new value.
C3_SignificantAdjustmentApplied ==
    \A i \in DOMAIN PegEvents :
        LET old == PegBefore(i)
            proposed == Clamp(old + Scale(PegAdjustment(i)))
        IN  proposed # old =>
               /\ PegEvents[i].payload.newPeg = proposed
               /\ Cardinality(PegEventsBy(PegEvents[i].by)) = 1
               /\ "oldPeg" \in DOMAIN PegEvents[i].payload
               /\ PegEvents[i].payload.oldPeg = old

-----------------------------------------------------------------------------
(* Claims C7 - C10: PredictionEngine *)

LoadsInFlight == {l \in DOMAIN loads : loads[l].loader = "pending"}

\* C7: at most one model load is in flight at any time, and all the predict
\* calls that wait for a model wait for the same load.
C7_SingleLoadInFlight ==
    /\ Cardinality(LoadsInFlight) <= 1
    /\ \A c, d \in DOMAIN calls :
          (calls[c].pst = "awaitLoad" /\ calls[d].pst = "awaitLoad")
              => calls[c].load = calls[d].load

\* C8: while every load has failed, a predict call that has ended ended with
\* ModelUnavailableError: it returned no adjustment and no other error kind.
C8_FailingLoaderGivesModelUnavailable ==
    (\A l \in DOMAIN loads : loads[l].loader = "failed") =>
        \A c \in DOMAIN calls :
            /\ calls[c].pst # "returned"
            /\ calls[c].pst = "threw" => calls[c].error = "ModelUnavailableError"

\* C9: when the loader fails, the promise returned by loadModel rejects.
C9_LoadFailureRejects ==
    \A l \in DOMAIN loads : loads[l].loader = "failed" => loads[l].promise = "rejected"

-----------------------------------------------------------------------------
(* Claims C4 - C6: SecureStore *)

\* the errors of quantumDecrypt a caller can take for the integrity failure:
\* the tag was refused by setAuthTag or by final
IntegrityErrors == {"AuthenticationFailed", "ERR_CRYPTO_INVALID_AUTH_TAG"}

PipeCount(chars) == Cardinality({i \in DOMAIN chars : chars[i] = "|"})

\* a persisted string that is not hex(ciphertext) | hex(tag) with one pipe and
\* both segments present
Malformed(chars) ==
    \/ PipeCount(chars) # 1
    \/ Split(chars)[1] = <<>>
    \/ Split(chars)[2] = <<>>

\* C4: decrypting the string produced by quantumEncrypt(P, K), as it was
\* produced and with the same key K, returns exactly P.
C4_RoundTrip ==
    (phase = "decrypted" /\ tamper = "none" /\ dkey = key)
        => result = [status |-> "returned", value |-> plaintext]

\* C4 witness: a two-character plaintext holding the pipe and a two-byte
\* character went through encryption and decryption under one key.
C4_Witness ==
    /\ phase = "decrypted" /\ tamper = "none" /\ dkey = key
    /\ plaintext = <<233, 124>>
    /\ result.status = "returned"

\* C5: a string whose tag segment was altered, or that is decrypted under
\* another key than it was encrypted with, makes decrypt fail with the
\* integrity error and return no plaintext.
C5_TamperedTagRejected ==
    (phase = "decrypted" /\ (tamper \in TagTamperKinds \/ (tamper = "none" /\ dkey # key)))
        => /\ result.status = "threw"
           /\ result.error \in IntegrityErrors

\* C6: a persisted string without exactly one pipe, or with an empty
\* ciphertext or tag segment, is rejected and never decrypted.  The code has
\* no error classes, so whichever error it throws is taken for the format
\* error.
C6_MalformedRejected ==
    (phase = "decrypted" /\ Malformed(blob)) => result.status = "threw"

-----------------------------------------------------------------------------
(* Claims C11, C14, C15, C18: TrainingTrigger *)

\* the 'trainingTriggered' events emitted for the reading of invocation c
TrainingEventsBy(c) ==
    {i \in DOMAIN events["trainingTriggered"] : events["trainingTriggered"][i].by = c}

\* the gating condition as the claim states it: the reading has the field and
\* its value is strictly above the threshold
Gated(data) == "energyPrice" \in DOMAIN data /\ data.energyPrice > TrainingThreshold

C14_StoreFailureContained ==
    \A c \in DOMAIN calls :
        calls[c].stored = "failed" =>
            (TrainingEventsBy(c) = {} /\ calls[c].ost = "done")

\* C15: every training event belongs to a contribution whose store call has
\* completed, and the fingerprint in the event and in the result returned by
\* the trigger is the fingerprint the store call answered; the event carries
\* the contribution that was stored.
C15_TrainingEventAfterStore ==
    \A i \in DOMAIN events["trainingTriggered"] :
        LET e == events["trainingTriggered"][i]
            c == e.by
        IN  /\ c \in DOMAIN calls
            /\ calls[c].stored \in Cids
            /\ e.payload.cid = calls[c].stored
            /\ calls[c].cid = calls[c].stored
            /\ e.payload.data = [sensorData |-> calls[c].data]

\* C15 witness: two contributions were stored under different fingerprints
\* and each has its training event.
C15_Witness ==
    \E c, d \in DOMAIN calls :
        /\ calls[c].stored = "QmA" /\ calls[d].stored = "QmB"
        /\ TrainingEventsBy(c) # {} /\ TrainingEventsBy(d) # {}

\* the store call for the contribution of reading c has been issued
TrainingStarted(c) == calls[c].ost = "awaitStore" \/ calls[c].stored # "none"

\* C18: the gating of a reading does not depend on its prediction: for a
\* reading whose energy price exceeds the threshold and whose prediction
\* failed, training was triggered all the same by the time its handling ended.
C18_GatingIndependentOfPrediction ==
    \A c \in DOMAIN calls :
        (/\ calls[c].kind = "sensor"
         /\ Gated(calls[c].data)
         /\ calls[c].pst = "threw"
         /\ calls[c].ost = "rejected")
            => TrainingStarted(c)

-----------------------------------------------------------------------------
(* Claim C12: SensorIngestor, de-duplication *)

\* the de-duplication window, in ticks of the logical clock DateNow
DedupWindow == 1

\* the time invocation c arrived at: DateNow when its handler started
ArrivedAt(c) == c - 1

\* two readings of one source (one topic) that arrived within the window
Duplicates(c, d) ==
    /\ c < d
    /\ calls[c].kind = "sensor" /\ calls[d].kind = "sensor"
    /\ calls[c].topic = calls[d].topic
    /\ ArrivedAt(d) - ArrivedAt(c) <= DedupWindow

\* a reading that went downstream: it got a prediction and a peg recomputation
EmittedDownstream(c) == PredictionEventsBy(c) # {} /\ PegEventsBy(c) # {}

\* C12: two readings of one source that arrive within the de-duplication
\* window collapse to one: they are never both emitted downstream (one
\* prediction and one peg recomputation for the pair, not one each).
C12_DuplicatesCollapse ==
    \A c, d \in DOMAIN calls :
        Duplicates(c, d) => ~(EmittedDownstream(c) /\ EmittedDownstream(d))

-----------------------------------------------------------------------------
(* Claim C13: SensorIngestor, pull sources *)

\* the content published for pull p: what the subscribers of 'iotDataUpdated'
\* were handed, and nothing when the pull published nothing
PublishedBy(p) ==
    {events["iotDataUpdated"][i].payload.seen :
        i \in {j \in DOMAIN events["iotDataUpdated"] : events["iotDataUpdated"][j].by = p}}

\* C13: in a pull over several sources that has ended, every source that
\* answered with a value has that value published (the cache is the published
\* object), whatever the other sources of the same pull did.
C13_PullFailureIsolated ==
    \A p \in DOMAIN pulls :
        pulls[p].st = "returned" =>
            \A i \in DOMAIN pulls[p].ids :
                LET id == pulls[p].ids[i]
                    res == pulls[p].responses[i]
                IN  res.status = "ok" =>
                       \E o \in PublishedBy(p) :
                           id \in DOMAIN o /\ o[id] = ResponseValue(res)

-----------------------------------------------------------------------------
(* Claim C16: EventBus, error isolation per handler *)

\* C16: every 'predictionMade' event is delivered to all the listeners that
\* were registered when it was emitted, also when one of them raises an error,
\* and no predict call fails with the error of a listener.
C16_SubscriberIsolation ==
    /\ \A i \in DOMAIN events["predictionMade"] :
          events["predictionMade"][i].delivered = events["predictionMade"][i].registered
    /\ \A c \in DOMAIN calls : calls[c].error # "ListenerError"

-----------------------------------------------------------------------------
(* Claim C17: the hub has no global fatal state *)

\* C17: no failure of an operation while a reading is handled (a failed
\* predict, a failed store call) ends the hub: the process keeps running, so
\* that a reading arriving later is still handled.
C17_NoGlobalFatalState == ~crashed

-----------------------------------------------------------------------------
(* Claim C19: the peg as other components read it.  The code keeps no peg      *)
(* state: the peg is observable through the 'peggingAdjusted' events only.     *)

\* the recompute for the reading of invocation c has run: processSensorData
\* went past adjustPiPegging
Recomputed(c) ==
    /\ calls[c].kind = "sensor"
    /\ calls[c].pst = "returned"
    /\ calls[c].ost # "awaitPredict"

-----------------------------------------------------------------------------
(* Claim C20: the status query *)

\* the readings the hub's own operations cached: those of the pull that built
\* the object this.iotDataCache refers to, none before the first such pull
CachedByHub ==
    IF \E p \in DOMAIN pulls : pulls[p].result = iotDataCache
    THEN LET p == CHOOSE q \in DOMAIN pulls : pulls[q].result = iotDataCache
         IN  ReduceResponses(pulls[p].ids, pulls[p].responses)
    ELSE EmptyObject

\* C20: a snapshot reports the model as loaded only when a load has completed
\* successfully, and whatever the holders of snapshots do, the hub's cached
\* readings are the ones its own operations cached.
C20_StatusReadOnly ==
    /\ \A n \in DOMAIN snapshots :
          snapshots[n].modelLoaded => \E l \in DOMAIN loads : loads[l].loader = "ok"
    /\ heap[iotDataCache] = CachedByHub

-----------------------------------------------------------------------------
(* Claim C21: shutdown *)

\* the grace period of the shutdown, in ticks of the logical clock
GracePeriod == 1

\* C21: when the teardown is reached, the predict and store calls that were
\* in flight at the shutdown signal have been awaited: none is left in
\* flight, unless the grace period has passed.
C21_ShutdownAwaitsInFlight ==
    teardown.reached =>
        (teardown.inFlight = {} \/ teardown.waited >= GracePeriod)

-----------------------------------------------------------------------------
(* Claim C22: model loading, wait and retry.  predictAdjustment waits for one  *)
(* load attempt of its own (calls[c].load) and then goes on whatever the       *)
(* outcome: the policy of the code is wait-and-retry with a single attempt.    *)

\* call c waited for its load attempt, the attempt failed, no other load has
\* brought a model, and the call has ended in an error
LoadAttemptsExhausted(c) ==
    /\ calls[c].load # 0
    /\ loads[calls[c].load].loader = "failed"
    /\ model = "null"
    /\ calls[c].pst = "threw"

\* C22: a predict call whose load attempts all failed ends with
\* ModelUnavailableError.
C22_ExhaustedLoadGivesModelUnavailable ==
    \A c \in DOMAIN calls :
        LoadAttemptsExhausted(c) => calls[c].error = "ModelUnavailableError"

-----------------------------------------------------------------------------
(* Claims C23, C24: the strings quantumEncrypt produces *)

\* C23: encryption uses a fresh nonce that is carried in the blob: encrypting
\* the same plaintext under the same key once more gives a different blob
\* (quantumEncrypt reads nothing but its argument and this.quantumKey, so the
\* second call is the same function applied again), and the blob holds more
\* than the ciphertext and the tag.
C23_FreshNonce ==
    phase = "encrypted" =>
        /\ quantumEncrypt(plaintext, key) # blob
        /\ Len(Split(blob)[1]) > 2 * Len(Utf8Encode(plaintext))

\* every character of the string is a hex digit
IsHex(chars) == \A i \in DOMAIN chars : IsHexDigit(chars[i])

\* the errors quantumDecrypt raises on the form of its input: no tag segment,
\* or a tag of an invalid length
FormErrors == {"ERR_INVALID_ARG_TYPE", "ERR_CRYPTO_INVALID_AUTH_TAG"}

\* C24: the string produced for any plaintext, the empty one included, is
\* hex(ciphertext) + '|' + hex(tag): exactly one pipe, two hex segments, two
\* digits per byte of the plaintext in the first and a whole tag in the
\* second, and quantumDecrypt does not refuse its form.
C24_BlobWellFormed ==
    phase = "encrypted" =>
        /\ PipeCount(blob) = 1
        /\ Len(Split(blob)) = 2
        /\ IsHex(Split(blob)[1]) /\ IsHex(Split(blob)[2])
        /\ Len(Split(blob)[1]) = 2 * Len(Utf8Encode(plaintext))
        /\ Len(Split(blob)[2]) = 2 * TagLength
        /\ \A k \in Keys :
              LET r == quantumDecrypt(blob, k)
              IN  r.status = "threw" => r.error \notin FormErrors

\* C24 witness: the empty plaintext was encrypted; the string starts with
\* the pipe.
C24_Witness ==
    /\ phase = "encrypted"
    /\ plaintext = <<>>
    /\ blob # <<>> /\ blob[1] = "|"

-----------------------------------------------------------------------------
(* Claims C25, C28: what fetchIoTSensors returns, caches and publishes *)

\* pull p ends in this step
Returns(p) ==
    /\ p \in DOMAIN pulls
    /\ pulls[p].st = "pending"
    /\ pulls'[p].st = "returned"

\* the mapping with one entry per requested id, holding the value the
\* source of that id reported
Reported(ids, responses) ==
    [id \in {ids[i] : i \in DOMAIN ids} |->
        [defined |-> TRUE,
         value |-> responses[CHOOSE i \in DOMAIN ids : ids[i] = id].value]]

C28_FailedFetchLeavesCache ==
    [][\A p \in DOMAIN pulls :
          (Returns(p) /\ \E i \in DOMAIN pulls'[p].responses :
                             pulls'[p].responses[i].status = "unreachable")
          => /\ pulls'[p].result = FreshEmpty
             /\ iotDataCache' = iotDataCache
             /\ heap' = heap
             /\ events'["iotDataUpdated"] = events["iotDataUpdated"]]_vars

\* C28 witness: a pull failed after an earlier pull had filled the cache;
\* the cache still holds the earlier mapping and the only event is the
\* earlier one.
C28_Witness ==
    \E p, q \in DOMAIN pulls :
        /\ q < p
        /\ pulls[q].st = "returned" /\ pulls[q].result # FreshEmpty
        /\ pulls[p].st = "returned"
        /\ \E i \in DOMAIN pulls[p].responses :
              pulls[p].responses[i].status = "unreachable"
        /\ pulls[p].result = FreshEmpty
        /\ iotDataCache = pulls[q].result
        /\ DOMAIN heap[iotDataCache] # {}
        /\ \A i \in DOMAIN events["iotDataUpdated"] :
              events["iotDataUpdated"][i].by = q

-----------------------------------------------------------------------------
(* Claim C26: order of the events of the readings *)

\* the events of the log were emitted in the order in which the readings
\* that caused them arrived (invocations are numbered in arrival order)
InArrivalOrder(log) ==
    \A i, j \in DOMAIN log :
        (/\ i < j
         /\ calls[log[i].by].kind = "sensor"
         /\ calls[log[j].by].kind = "sensor") => log[i].by < log[j].by

\* C26: when several readings are processed concurrently, also while the
\* model is still loading, the 'predictionMade' events and the
\* 'peggingAdjusted' events are emitted in the order in which their readings
\* arrived.
C26_EventsInArrivalOrder ==
    /\ InArrivalOrder(events["predictionMade"])
    /\ InArrivalOrder(PegEvents)

-----------------------------------------------------------------------------
(* Claim C27: the published peg does not accumulate *)

\* the distance of the i-th published peg from the fixed base
PegOffset(i) == PegEvents[i].payload.newPeg - basePeg

\* C27: the peg published by adjustPiPegging is the fixed base plus the
\* latest adjustment times 1000000 and nothing else: two publications with
\* the same adjustment carry the same peg whatever was published between
\* them, and the current peg is a function of the last adjustment alone.
C27_PegDoesNotAccumulate ==
    /\ \A i \in DOMAIN PegEvents : PegOffset(i) = PegScale * PegAdjustment(i)
    /\ \A i, j \in DOMAIN PegEvents :
          PegAdjustment(i) = PegAdjustment(j) => PegOffset(i) = PegOffset(j)
    /\ PegEvents # <<>> =>
          CurrentPeg = basePeg + PegScale * PegAdjustment(Len(PegEvents))

\* C27 witness: two pegs were published, the first with an adjustment other
\* than zero and than the second; the current peg shows the second only.
C27_Witness ==
    /\ Len(PegEvents) = 2
    /\ PegAdjustment(1) # 0
    /\ PegAdjustment(2) # PegAdjustment(1)
    /\ CurrentPeg = basePeg + PegScale * PegAdjustment(2)

-----------------------------------------------------------------------------
(* Claims C29, C30: what the status query shows of the model and of the last   *)
(* prediction                                                                  *)

\* the model-loaded flags of the status queries, in the order of the queries,
\* never go from true to false
FlagsMonotone ==
    \A n, m \in DOMAIN snapshots :
        (n < m /\ snapshots[n].modelLoaded) => snapshots[m].modelLoaded

\* C29: once a model has been loaded it stays loaded: no step of loadModel,
\* of a later loadModel that fails, or of predictAdjustment sets the model
\* back to absent, and the model-loaded flag of the status query never goes
\* from true back to false.
C29_ModelStaysLoaded ==
    /\ [][model = "loaded" => model' = "loaded"]_vars
    /\ []FlagsMonotone

\* C29 witness: a load that was started after a successful one has failed,
\* a prediction was made, and two status queries both show the model loaded.
C29_Witness ==
    /\ \E l1, l2 \in DOMAIN loads :
          l1 < l2 /\ loads[l1].loader = "ok" /\ loads[l2].loader = "failed"
    /\ \E c \in DOMAIN calls : calls[c].pst = "returned"
    /\ model = "loaded"
    /\ Len(snapshots) = 2
    /\ snapshots[1].modelLoaded /\ snapshots[2].modelLoaded

\* C30: the lastPrediction field of every status query is null, and the hub
\* holds no last prediction, whatever number of predictAdjustment calls
\* returned.
C30_LastPredictionNull ==
    /\ lastPrediction = Undefined
    /\ \A n \in DOMAIN snapshots : snapshots[n].lastPrediction = Null

\* C30 witness: two predictAdjustment calls returned an adjustment other
\* than zero and a status query made with the model loaded shows null.
C30_Witness ==
    /\ Len(calls) = 2
    /\ \A c \in DOMAIN calls :
          calls[c].pst = "returned" /\ calls[c].adjustment # 0
    /\ \E n \in DOMAIN snapshots :
          snapshots[n].modelLoaded /\ snapshots[n].lastPrediction = Null

=============================================================================
